---- MODULE Spec2Model ----
(***************************************************************************)
(* Model of the product-catalog HTTP service of src/main.py.               *)
(*                                                                         *)
(* State: the store handle `db` (bound once at import), the environment    *)
(* variables read by the diagnostic endpoint, the `product` collection of  *)
(* the document store, the store's identifier generator, and the last      *)
(* request with its response.  Spec runs whole requests one after another  *)
(* against a store that never fails; SpecC runs concurrent seed requests   *)
(* step by step against a store whose inserts may fail.                    *)
(*                                                                         *)
(* Encodings: Optional[str] is <<>> (None) or <<s>>; an identifier text    *)
(* and a raw query value are sequences of one-character strings; a price   *)
(* is a number of cents; a JSON body is a function from the keys it holds. *)
(***************************************************************************)
EXTENDS Integers, Sequences, FiniteSets, TLC

VARIABLES db, env, store, nextOid, last, seeders

vars == <<db, env, store, nextOid, last, seeders>>

\* ---------------------------------------------------------------- bounds
\* create requests are accepted while the collection holds fewer records
MaxDocs == 5
\* concurrent seed requests of SpecC
NumSeeders == 2
\* the first identifier the store generates
FirstOid == 10

\* ------------------------------------------------------------- constants
OidLen == 24
DefaultLimit == 50
CollectionsCap == 10

None == <<>>
Some(x) == <<x>>

Connected == "connected"
NoDb == "none"

\* ------------------------------------------------------------ identifiers
HexDigits == <<"0", "1", "2", "3", "4", "5", "6", "7", "8", "9",
               "a", "b", "c", "d", "e", "f">>
UpperDigits == <<"0", "1", "2", "3", "4", "5", "6", "7", "8", "9",
                 "A", "B", "C", "D", "E", "F">>

IsHexChar(c) == \E i \in 1..16 : HexDigits[i] = c \/ UpperDigits[i] = c

HexVal(c) == (CHOOSE i \in 1..16 : HexDigits[i] = c \/ UpperDigits[i] = c) - 1

RECURSIVE ToHex(_, _)
ToHex(n, len) ==
    IF len = 0 THEN <<>>
    ELSE Append(ToHex(n \div 16, len - 1), HexDigits[(n % 16) + 1])

RECURSIVE FromHex(_)
FromHex(s) ==
    IF s = <<>> THEN 0
    ELSE 16 * FromHex(SubSeq(s, 1, Len(s) - 1)) + HexVal(s[Len(s)])

\* str(ObjectId): 24 lowercase hexadecimal characters
OidStr(oid) == ToHex(oid, OidLen)

\* ObjectId(text) raises unless the text is 24 hexadecimal characters
IsValidOid(s) == Len(s) = OidLen /\ \A i \in 1..Len(s) : IsHexChar(s[i])

ParseOid(s) == FromHex(s)

\* ------------------------------------------------------- product schema
Get(doc, key, default) == IF key \in DOMAIN doc THEN doc[key] ELSE default

\* ProductIn: title, price, category required; price >= 0
ValidBody_NoTitleCheck(raw) ==
    /\ "price" \in DOMAIN raw
    /\ raw["price"] >= 0
    /\ "category" \in DOMAIN raw

ValidBody_NoPriceCheck(raw) ==
    /\ "title" \in DOMAIN raw
    /\ "price" \in DOMAIN raw
    /\ "category" \in DOMAIN raw

ValidBody(raw) ==
    /\ "title" \in DOMAIN raw
    /\ "price" \in DOMAIN raw
    /\ raw["price"] >= 0
    /\ "category" \in DOMAIN raw

\* product.dict(): every field, the absent optional ones at their defaults
ProductDict(raw) ==
    [title       |-> Get(raw, "title", None),
     description |-> Get(raw, "description", None),
     price       |-> raw["price"],
     category    |-> raw["category"],
     image       |-> Get(raw, "image", None),
     in_stock    |-> Get(raw, "in_stock", TRUE)]

doc_to_product_DropStock(doc) ==
    [id          |-> OidStr(doc["_id"]),
     title       |-> Get(doc, "title", None),
     description |-> Get(doc, "description", None),
     price       |-> Get(doc, "price", 0),
     category    |-> Get(doc, "category", None),
     image       |-> Get(doc, "image", None),
     in_stock    |-> TRUE]

doc_to_product(doc) ==
    [id          |-> OidStr(doc["_id"]),
     title       |-> Get(doc, "title", None),
     description |-> Get(doc, "description", None),
     price       |-> Get(doc, "price", 0),
     category    |-> Get(doc, "category", None),
     image       |-> Get(doc, "image", None),
     in_stock    |-> Get(doc, "in_stock", TRUE)]

\* ------------------------------------------------ document store gateway
WithId(data, oid) ==
    [k \in DOMAIN data \cup {"_id"} |-> IF k = "_id" THEN oid ELSE data[k]]

\* insert one record; the store generates the identifier
create_document(st, oid, data) ==
    [store |-> Append(st, WithId(data, oid)), id |-> OidStr(oid)]

Matches(doc, filt) == \A k \in DOMAIN filt : k \in DOMAIN doc /\ doc[k] = filt[k]

RECURSIVE Filter(_, _)
Filter(docs, filt) ==
    IF docs = <<>> THEN <<>>
    ELSE IF Matches(Head(docs), filt)
         THEN <<Head(docs)>> \o Filter(Tail(docs), filt)
         ELSE Filter(Tail(docs), filt)

Min(a, b) == IF a < b THEN a ELSE b

\* up to `limit` matching records, in store order
get_documents(st, filt, limit) ==
    LET m == Filter(st, filt) IN SubSeq(m, 1, Min(limit, Len(m)))

find_one(st, oid) ==
    IF \E i \in 1..Len(st) : st[i]["_id"] = oid
    THEN Some(st[CHOOSE i \in 1..Len(st) : st[i]["_id"] = oid])
    ELSE None

count_documents(st) == Len(st)

list_collection_names(st) == IF st = <<>> THEN <<>> ELSE <<"product">>

\* ------------------------------------------------------------ responses
Resp(status, body, calls, st, oid) ==
    [status |-> status, body |-> body, calls |-> calls, store |-> st, nextOid |-> oid]

NotConfigured(st, oid) == Resp(500, "Database not configured", <<>>, st, oid)

ValidationError(st, oid) == Resp(422, "validation error", <<>>, st, oid)

\* ----------------------------------------------------- query parameters
Digits == <<"0", "1", "2", "3", "4", "5", "6", "7", "8", "9">>

IsDigit(c) == \E i \in 1..10 : Digits[i] = c

DigitVal(c) == (CHOOSE i \in 1..10 : Digits[i] = c) - 1

IsInt(s) == Len(s) > 0 /\ \A i \in 1..Len(s) : IsDigit(s[i])

RECURSIVE IntOf(_)
IntOf(s) ==
    IF s = <<>> THEN 0
    ELSE 10 * IntOf(SubSeq(s, 1, Len(s) - 1)) + DigitVal(s[Len(s)])

\* limit: int = 50
ValidLimit(rawLimit) == rawLimit = None \/ IsInt(rawLimit[1])

LimitOf(rawLimit) == IF rawLimit = None THEN DefaultLimit ELSE IntOf(rawLimit[1])

\* ------------------------------------------------------------- demo data
Demo ==
    << [title       |-> "NeoCube Pro",
        description |-> Some("Futuristic modular cube speaker with reactive LEDs."),
        price       |-> 19999,
        category    |-> "audio",
        image       |-> Some("https://images.unsplash.com/photo-1518779578993-ec3579fee39f?auto=format&fit=crop&w=800&q=60"),
        in_stock    |-> TRUE],
       [title       |-> "Iris Orbit Lamp",
        description |-> Some("Iridescent smart lamp that orbits hues through the day."),
        price       |-> 12900,
        category    |-> "lighting",
        image       |-> Some("https://images.unsplash.com/photo-1496307042754-b4aa456c4a2d?auto=format&fit=crop&w=800&q=60"),
        in_stock    |-> TRUE],
       [title       |-> "Glyph Headphones",
        description |-> Some("Metallic over-ears with spatial audio and ANC."),
        price       |-> 24900,
        category    |-> "audio",
        image       |-> Some("https://images.unsplash.com/photo-1518443747120-6f6f2d80b7a1?auto=format&fit=crop&w=800&q=60"),
        in_stock    |-> TRUE],
       [title       |-> "Prism Desk Mat",
        description |-> Some("Soft-touch mat with subtle neon edge glow."),
        price       |-> 3900,
        category    |-> "accessories",
        image       |-> Some("https://images.unsplash.com/photo-1473186578172-c141e6798cf4?auto=format&fit=crop&w=800&q=60"),
        in_stock    |-> TRUE] >>

\* --------------------------------------------------------------- handlers
\* GET /api/products
\* filt = {"category": category} if category else {}
CategoryFilter(category) ==
    IF category # None /\ category[1] # "" THEN [category |-> category[1]] ELSE <<>>

RECURSIVE MapProducts(_)
MapProducts(docs) ==
    IF docs = <<>> THEN <<>>
    ELSE <<doc_to_product(Head(docs))>> \o MapProducts(Tail(docs))

list_products_NoFilter(dbh, st, oid, category, rawLimit) ==
    IF ~ValidLimit(rawLimit) THEN ValidationError(st, oid)
    ELSE IF dbh = NoDb THEN NotConfigured(st, oid)
    ELSE Resp(200, MapProducts(get_documents(st, <<>>, LimitOf(rawLimit))),
              <<"find">>, st, oid)

list_products(dbh, st, oid, category, rawLimit) ==
    IF ~ValidLimit(rawLimit) THEN ValidationError(st, oid)
    ELSE IF dbh = NoDb THEN NotConfigured(st, oid)
    ELSE Resp(200,
              MapProducts(get_documents(st, CategoryFilter(category), LimitOf(rawLimit))),
              <<"find">>, st, oid)

\* POST /api/products
create_product_NoDbCheck(dbh, st, oid, raw) ==
    IF ~ValidBody(raw) THEN ValidationError(st, oid)
    ELSE LET r == create_document(st, oid, ProductDict(raw))
         IN  Resp(200, r.id, <<"insert_one">>, r.store, oid + 1)

create_product(dbh, st, oid, raw) ==
    IF ~ValidBody(raw) THEN ValidationError(st, oid)
    ELSE IF dbh = NoDb THEN NotConfigured(st, oid)
    ELSE LET r == create_document(st, oid, ProductDict(raw))
         IN  Resp(200, r.id, <<"insert_one">>, r.store, oid + 1)

\* GET /api/products/{product_id}
get_product_QueryFirst(dbh, st, oid, product_id) ==
    IF dbh = NoDb THEN NotConfigured(st, oid)
    ELSE LET found == IF IsValidOid(product_id)
                      THEN find_one(st, ParseOid(product_id)) ELSE None
         IN  IF found = None
             THEN Resp(404, "Product not found", <<"find_one">>, st, oid)
             ELSE Resp(200, doc_to_product(found[1]), <<"find_one">>, st, oid)

get_product_FirstDoc(dbh, st, oid, product_id) ==
    IF dbh = NoDb THEN NotConfigured(st, oid)
    ELSE IF ~IsValidOid(product_id)
    THEN Resp(400, "Invalid product id", <<>>, st, oid)
    ELSE IF st = <<>>
         THEN Resp(404, "Product not found", <<"find_one">>, st, oid)
         ELSE Resp(200, doc_to_product(st[1]), <<"find_one">>, st, oid)

get_product(dbh, st, oid, product_id) ==
    IF dbh = NoDb THEN NotConfigured(st, oid)
    ELSE IF ~IsValidOid(product_id)
    THEN Resp(400, "Invalid product id", <<>>, st, oid)
    ELSE LET doc == find_one(st, ParseOid(product_id))
         IN  IF doc = None
             THEN Resp(404, "Product not found", <<"find_one">>, st, oid)
             ELSE Resp(200, doc_to_product(doc[1]), <<"find_one">>, st, oid)

\* POST /api/seed, the loop over the demo records
RECURSIVE InsertAll(_, _, _)
InsertAll(st, oid, docs) ==
    IF docs = <<>> THEN st
    ELSE InsertAll(create_document(st, oid, Head(docs)).store, oid + 1, Tail(docs))

InsertCalls(n) == [i \in 1..n |-> "insert_one"]

AlreadySeeded_Never(st) == FALSE

\* if db["product"].count_documents({}) > 0: return 0
AlreadySeeded(st) == count_documents(st) > 0

seed_products(dbh, st, oid) ==
    IF dbh = NoDb THEN NotConfigured(st, oid)
    ELSE IF AlreadySeeded(st)
    THEN Resp(200, 0, <<"count_documents">>, st, oid)
    ELSE Resp(200, Len(Demo), <<"count_documents">> \o InsertCalls(Len(Demo)),
              InsertAll(st, oid, Demo), oid + Len(Demo))

\* GET /test; the report's texts without their leading pictographs, the
\* text of a store error left out
Take(s, n) == SubSeq(s, 1, Min(n, Len(s)))

test_database(dbh, e, st, listFails) ==
    [backend           |-> "Running",
     database          |-> IF dbh = NoDb THEN "Available but not initialized"
                           ELSE IF listFails THEN "Connected but Error"
                           ELSE "Connected & Working",
     database_url      |-> IF e.url THEN "Set" ELSE "Not Set",
     database_name     |-> IF e.name THEN "Set" ELSE "Not Set",
     connection_status |-> IF dbh = NoDb THEN "Not Connected" ELSE "Connected",
     collections       |-> IF dbh = NoDb \/ listFails THEN <<>>
                           ELSE Take(list_collection_names(st), CollectionsCap)]

\* ------------------------------------------------------- request inputs
Bodies ==
    { [title |-> "Desk", price |-> 500, category |-> "audio"],
      [title |-> "Desk", description |-> Some("oak"), price |-> 0,
       category |-> "office", image |-> Some("u"), in_stock |-> FALSE],
      [title |-> "", price |-> 500, category |-> ""],
      [title |-> "Desk", price |-> -100, category |-> "audio"],
      [title |-> "", price |-> -1, category |-> "audio"],
      [price |-> 500, category |-> "audio"],
      [title |-> "Desk", category |-> "audio"],
      [title |-> "Desk", price |-> 500] }

UpperStr(s) ==
    [i \in 1..Len(s) |->
        IF IsHexChar(s[i]) THEN UpperDigits[HexVal(s[i]) + 1] ELSE s[i]]

ProductIds ==
    {OidStr(FirstOid + i) : i \in 0..MaxDocs}
    \cup {UpperStr(OidStr(FirstOid))}
    \cup { <<>>, <<"a", "b", "c">>, ToHex(FirstOid, OidLen - 1),
           [OidStr(FirstOid) EXCEPT ![1] = "g"], OidStr(FirstOid) \o <<"0">> }

Categories == {None, Some(""), Some("audio"), Some("office")}

Limits == {None, Some(<<"1">>), Some(<<"2">>), Some(<<"x">>)}

Seeders == 1..NumSeeders

Idle == [pc |-> "idle", seen |-> 0, inserted |-> 0, ret |-> 0]

\* ------------------------------------------------- sequential requests
Record(op, req, r) ==
    [op |-> op, req |-> req, status |-> r.status, body |-> r.body,
     calls |-> r.calls, before |-> store]

Init ==
    /\ db \in {NoDb, Connected}
    /\ env \in [url : BOOLEAN, name : BOOLEAN]
    /\ db = Connected => env.url /\ env.name
    /\ store = <<>>
    /\ nextOid = FirstOid
    /\ last = [op |-> "none", req |-> <<>>, status |-> 0, body |-> <<>>,
               calls |-> <<>>, before |-> <<>>]
    /\ seeders = [s \in Seeders |-> Idle]

Apply(op, req, r) ==
    /\ store' = r.store
    /\ nextOid' = r.nextOid
    /\ last' = Record(op, req, r)
    /\ UNCHANGED <<db, env, seeders>>

ListProducts ==
    \E category \in Categories, rawLimit \in Limits :
        Apply("list", [category |-> category, limit |-> rawLimit],
              list_products(db, store, nextOid, category, rawLimit))

CreateProduct ==
    /\ Len(store) < MaxDocs
    /\ \E raw \in Bodies : Apply("create", raw, create_product(db, store, nextOid, raw))

GetProduct ==
    \E product_id \in ProductIds :
        Apply("get", product_id, get_product(db, store, nextOid, product_id))

SeedProducts == Apply("seed", <<>>, seed_products(db, store, nextOid))

TestDatabase ==
    \E listFails \in BOOLEAN :
        /\ listFails => db # NoDb
        /\ Apply("test", <<>>,
                 Resp(200, test_database(db, env, store, listFails),
                      IF db = NoDb THEN <<>> ELSE <<"list_collection_names">>,
                      store, nextOid))

Next == ListProducts \/ CreateProduct \/ GetProduct \/ SeedProducts \/ TestDatabase

Spec == Init /\ [][Next]_vars

\* ------------------------------------------- concurrent seed requests
\* One seed_products request per seeder, a store operation per step:
\* pc "idle" (not started), "loop" (inside the for loop), "done" (returned
\* ret), "failed" (an insert raised and the request ended without a count),
\* "refused" (500, no store configured).  seen is what count_documents gave.
SeedCheck(s) ==
    /\ seeders[s].pc = "idle"
    /\ seeders' = [seeders EXCEPT ![s] =
          IF db = NoDb THEN [@ EXCEPT !.pc = "refused"]
          ELSE IF AlreadySeeded(store)
               THEN [@ EXCEPT !.pc = "done", !.seen = count_documents(store), !.ret = 0]
               ELSE [@ EXCEPT !.pc = "loop", !.seen = count_documents(store)]]
    /\ UNCHANGED <<db, env, store, nextOid, last>>

SeedInsert(s) ==
    /\ seeders[s].pc = "loop"
    /\ seeders[s].inserted < Len(Demo)
    /\ store' = create_document(store, nextOid, Demo[seeders[s].inserted + 1]).store
    /\ nextOid' = nextOid + 1
    /\ seeders' = [seeders EXCEPT ![s].inserted = @ + 1]
    /\ UNCHANGED <<db, env, last>>

SeedInsertFails(s) ==
    /\ seeders[s].pc = "loop"
    /\ seeders[s].inserted < Len(Demo)
    /\ seeders' = [seeders EXCEPT ![s].pc = "failed"]
    /\ UNCHANGED <<db, env, store, nextOid, last>>

SeedReturn(s) ==
    /\ seeders[s].pc = "loop"
    /\ seeders[s].inserted = Len(Demo)
    /\ seeders' = [seeders EXCEPT ![s].pc = "done", ![s].ret = seeders[s].inserted]
    /\ UNCHANGED <<db, env, store, nextOid, last>>

NextC ==
    \E s \in Seeders :
        SeedCheck(s) \/ SeedInsert(s) \/ SeedInsertFails(s) \/ SeedReturn(s)

SpecC == Init /\ [][NextC]_vars

\* ================================================================ claims
HasId(st, oid) == \E i \in 1..Len(st) : st[i]["_id"] = oid

IsDemoStore(st) ==
    /\ Len(st) = Len(Demo)
    /\ \A i \in 1..Len(st) : st[i] = WithId(Demo[i], FirstOid + i - 1)

\* ---- C1 ----------------------------------------------------------------
C1_FirstSeed ==
    (db = Connected /\ last.op = "seed" /\ last.before = <<>>)
        => /\ last.status = 200
           /\ last.body = 4
           /\ Len(store) = 4
           /\ IsDemoStore(store)

C1_SecondSeed ==
    (db = Connected /\ last.op = "seed" /\ last.before = <<>> /\ last'.op = "seed")
        => /\ last'.status = 200
           /\ last'.body = 0
           /\ store' = store
           /\ Len(store') = 4

\* C1: with a connected store, a seed call on the empty collection returns 4
\* and leaves exactly the 4 demo records (C1_FirstSeed); the seed call right
\* after it returns 0 and leaves the collection unchanged at 4 records
\* (C1_SecondSeed).
C1_SeedTwice == []C1_FirstSeed /\ [][C1_SecondSeed]_vars

C1_Witness ==
    /\ last.op = "seed"
    /\ last.status = 200
    /\ last.body = 0
    /\ last.before = store
    /\ IsDemoStore(store)

\* ---- C2 ----------------------------------------------------------------
\* C2 as stated: get_product with an unparseable id always answers 400 and
\* never issues find_one.
C2_Original ==
    (last.op = "get" /\ ~IsValidOid(last.req))
        => /\ last.status = 400
           /\ \A i \in 1..Len(last.calls) : last.calls[i] # "find_one"

\* C2 amended: get_product with an unparseable id never issues a store
\* query; it answers 400 "Invalid product id" when the store is connected
\* and the configuration error (500) when it is not.
C2_MalformedId ==
    (last.op = "get" /\ ~IsValidOid(last.req))
        => /\ last.calls = <<>>
           /\ store = last.before
           /\ db = Connected => last.status = 400 /\ last.body = "Invalid product id"
           /\ db = NoDb => last.status = 500 /\ last.body = "Database not configured"

C2_Witness ==
    /\ last.op = "get"
    /\ ~IsValidOid(last.req)
    /\ Len(last.req) = OidLen
    /\ last.status = 400
    /\ store # <<>>

\* ---- C3 ----------------------------------------------------------------
\* C3 as stated: with no store configured every list, create, get and seed
\* request answers 500 whatever its input, and the diagnostic answers 200
\* with a database field that reports the store as not usable.
C3_Original ==
    db = NoDb =>
        /\ last.op \in {"list", "create", "get", "seed"}
              => last.status = 500 /\ last.body = "Database not configured"
        /\ last.op = "test"
              => last.status = 200 /\ last.body.database = "Available but not initialized"

\* C3 amended: with no store configured every get and seed request, every
\* list request whose limit parses and every create request whose body
\* passes validation answers 500 "Database not configured"; a request that
\* fails validation answers the validation error instead; none of them
\* touches the store; the diagnostic answers 200 with database
\* "Available but not initialized" and connection_status "Not Connected".
C3_NotConfigured ==
    db = NoDb =>
        /\ store = <<>>
        /\ last.calls = <<>>
        /\ last.op \in {"get", "seed"}
              => last.status = 500 /\ last.body = "Database not configured"
        /\ last.op = "list"
              => IF last.req.limit = None \/ IsInt(last.req.limit[1])
                 THEN last.status = 500 /\ last.body = "Database not configured"
                 ELSE last.status = 422
        /\ last.op = "create"
              => IF /\ {"title", "price", "category"} \subseteq DOMAIN last.req
                    /\ last.req["price"] >= 0
                 THEN last.status = 500 /\ last.body = "Database not configured"
                 ELSE last.status = 422
        /\ last.op = "test"
              => /\ last.status = 200
                 /\ last.body.database = "Available but not initialized"
                 /\ last.body.connection_status = "Not Connected"
                 /\ last.body.collections = <<>>

C3_Witness ==
    /\ db = NoDb
    /\ last.op = "create"
    /\ last.status = 500
    /\ "in_stock" \in DOMAIN last.req

\* ---- C4 ----------------------------------------------------------------
StoredCategoryIs(st, product, c) ==
    \E j \in 1..Len(st) : OidStr(st[j]["_id"]) = product.id /\ st[j].category = c

\* C4 as stated: for every category value given to list_products, the empty
\* string included, every returned record has that stored category.
C4_Original ==
    (last.op = "list" /\ last.status = 200 /\ last.req.category # None)
        => \A i \in 1..Len(last.body) :
              /\ last.body[i].category = last.req.category[1]
              /\ StoredCategoryIs(store, last.body[i], last.req.category[1])

\* C4 amended: for every non-empty category value given to list_products
\* every returned record has exactly that stored category; an empty-string
\* category is treated as no filter and the first `limit` records of any
\* category are returned.
C4_CategoryFilter ==
    (last.op = "list" /\ last.status = 200 /\ last.req.category # None)
        => IF last.req.category[1] # ""
           THEN \A i \in 1..Len(last.body) :
                   /\ last.body[i].category = last.req.category[1]
                   /\ StoredCategoryIs(store, last.body[i], last.req.category[1])
           ELSE /\ Len(last.body) =
                      Min(IF last.req.limit = None THEN DefaultLimit
                          ELSE IntOf(last.req.limit[1]), Len(store))
                /\ \A i \in 1..Len(last.body) : last.body[i].id = OidStr(store[i]["_id"])

C4_Witness ==
    /\ last.op = "list"
    /\ last.status = 200
    /\ last.req.category = Some("audio")
    /\ Len(last.body) = 2
    /\ \E j \in 1..Len(store) : store[j].category # "audio"

\* ---- C5 ----------------------------------------------------------------
\* C5: a create_product request with a negative price fails validation and
\* writes nothing, and no stored record ever has a negative price.
C5_NoNegativePrice ==
    /\ (last.op = "create" /\ "price" \in DOMAIN last.req /\ last.req["price"] < 0)
          => last.status = 422 /\ last.calls = <<>> /\ store = last.before
    /\ \A i \in 1..Len(store) : store[i].price >= 0

C5_Witness ==
    /\ last.op = "create"
    /\ "price" \in DOMAIN last.req
    /\ last.req["price"] < 0
    /\ "title" \in DOMAIN last.req
    /\ db = Connected
    /\ store # <<>>

\* ---- C6 ----------------------------------------------------------------
C6_Step ==
    (/\ last.op = "create"
     /\ last.status = 200
     /\ last'.op = "get"
     /\ last'.req = last.body)
        => /\ last'.status = 200
           /\ last'.body.id = last.body
           /\ last'.body.title = last.req["title"]
           /\ last'.body.price = last.req["price"]
           /\ last'.body.category = last.req["category"]
           /\ last'.body.description =
                 (IF "description" \in DOMAIN last.req THEN last.req["description"] ELSE None)
           /\ last'.body.image =
                 (IF "image" \in DOMAIN last.req THEN last.req["image"] ELSE None)
           /\ last'.body.in_stock =
                 (IF "in_stock" \in DOMAIN last.req THEN last.req["in_stock"] ELSE TRUE)

\* C6: with a connected store, a successful create_product followed by
\* get_product on the id it returned answers 200 with the input's title,
\* description, price, category, image and in_stock (true when omitted) and
\* with that id.
C6_CreateThenGet == [][C6_Step]_vars

C6_Witness ==
    /\ last.op = "get"
    /\ last.status = 200
    /\ Len(store) > 1
    /\ last.body.id = OidStr(store[Len(store)]["_id"])
    /\ last.body.in_stock = FALSE
    /\ last.body.price = 0

\* ---- C7 ----------------------------------------------------------------
\* C7: with a connected store, get_product with a well-formed id answers 404
\* when no stored record has that id, and answers a product only when a
\* stored record has it (the record returned carries that id).
C7_NotFound ==
    (db = Connected /\ last.op = "get" /\ IsValidOid(last.req))
        => /\ ~HasId(store, FromHex(last.req))
                => last.status = 404 /\ last.body = "Product not found"
           /\ last.status = 200
                => /\ HasId(store, FromHex(last.req))
                   /\ FromHex(last.body.id) = FromHex(last.req)
           /\ last.status \in {200, 404}
           /\ store = last.before

C7_Witness ==
    /\ db = Connected
    /\ last.op = "get"
    /\ IsValidOid(last.req)
    /\ last.status = 404
    /\ Len(store) >= 2

\* ---- C8 ----------------------------------------------------------------
\* C8 as stated: a create_product request with an empty title fails
\* validation and writes nothing, and every stored record has a non-empty
\* title.
C8_Original ==
    /\ (/\ db = Connected
        /\ last.op = "create"
        /\ "title" \in DOMAIN last.req
        /\ last.req["title"] = "")
          => last.status = 422 /\ store = last.before
    /\ \A i \in 1..Len(store) : store[i].title # ""

\* C8 amended: the title is required text that may be empty: a
\* create_product request without a title fails validation and writes
\* nothing, so every stored record has a title; an empty title with a valid
\* price and category is accepted and stored.
C8_TitleRequired ==
    /\ (last.op = "create" /\ "title" \notin DOMAIN last.req)
          => last.status = 422 /\ last.calls = <<>> /\ store = last.before
    /\ \A i \in 1..Len(store) : "title" \in DOMAIN store[i]
    /\ (/\ db = Connected
        /\ last.op = "create"
        /\ {"title", "price", "category"} \subseteq DOMAIN last.req
        /\ last.req["price"] >= 0
        /\ last.req["title"] = "")
          => /\ last.status = 200
             /\ store = Append(last.before, store[Len(store)])
             /\ store[Len(store)].title = ""

C8_Witness ==
    /\ last.op = "create"
    /\ "title" \notin DOMAIN last.req
    /\ last.status = 422
    /\ \E i \in 1..Len(store) : store[i].title = ""

\* ---- C9 ----------------------------------------------------------------
Finished(s) == seeders[s].pc \in {"done", "failed", "refused"}

\* C9: every seed_products invocation that has ended, by returning or by a
\* store error, has inserted either 0 or exactly 4 records.
C9_AllOrNothing ==
    \A s \in Seeders : Finished(s) => seeders[s].inserted \in {0, 4}

\* ---- C10 ---------------------------------------------------------------
RECURSIVE SumRet(_)
SumRet(S) ==
    IF S = {} THEN 0
    ELSE LET s == CHOOSE x \in S : TRUE IN seeders[s].ret + SumRet(S \ {s})

AllReturned == \A s \in Seeders : seeders[s].pc = "done"

\* C10 as stated: among concurrent seed requests on an empty collection at
\* most one inserts; when all have returned the collection holds exactly 4
\* records and the returned counts sum to 4.
C10_Original ==
    /\ Cardinality({s \in Seeders : seeders[s].inserted > 0}) <= 1
    /\ AllReturned => Len(store) = 4 /\ SumRet(Seeders) = 4

\* C10 amended: a seed request inserts exactly when its own count check saw
\* the collection empty, so every concurrent request whose check runs before
\* the first insert inserts too; when all requests have returned a count,
\* each returned 0 or 4, at least one returned 4, and the collection holds
\* as many records as the returned counts sum to (4 for each request that
\* inserted).
C10_SeedRace ==
    /\ \A s \in Seeders :
          /\ seeders[s].seen > 0 => seeders[s].inserted = 0
          /\ (seeders[s].pc = "done" /\ seeders[s].seen > 0) => seeders[s].ret = 0
          /\ (seeders[s].pc = "done" /\ seeders[s].seen = 0) => seeders[s].ret = 4
    /\ AllReturned =>
          /\ \E s \in Seeders : seeders[s].ret = 4
          /\ Len(store) = SumRet(Seeders)
          /\ Len(store) = 4 * Cardinality({s \in Seeders : seeders[s].ret = 4})

C10_Witness ==
    /\ AllReturned
    /\ Len(store) = 8
    /\ SumRet(Seeders) = 8

====
